---- MODULE Spec2Model ----
(***************************************************************************)
(* A model of the position-sizing / risk engine (modules/risk_manager.py) *)
(* and of the strategy signal layer (modules/strategies.py).              *)
(*                                                                         *)
(* Numbers.  The program computes with Python floats.  The model computes *)
(* with exact rationals [n |-> numerator, d |-> denominator], d > 0, so   *)
(* that floor, ceil and round act on the exact decimal value.              *)
(* None is the empty sequence << >>, a present value v is <<v>>.           *)
(***************************************************************************)
EXTENDS Integers, Sequences, FiniteSets

VARIABLES
    config,              \* the module-level options imported from modules.config
    initial_balance,     \* RiskManager.initial_balance      (None or <<number>>)
    last_known_balance,  \* RiskManager.last_known_balance   (None or <<number>>)
    call,                \* the invocation in progress / last completed, with its result
    log,                 \* names of the RiskManager operations completed so far
    position,            \* the open position the trailing stop is maintained for
    stop,                \* stop-loss bookkeeping of that position
    bars,                \* indicator values of the bars received so far
    signals              \* signals emitted, one per evaluated bar

vars == <<config, initial_balance, last_known_balance, call, log,
          position, stop, bars, signals>>

risk_vars     == <<initial_balance, last_known_balance, call, log>>
stop_vars     == <<position, stop>>
strategy_vars == <<bars, signals>>

-----------------------------------------------------------------------------
(* Bounds of the model *)

MaxCalls     == 3   \* RiskManager operations in one run
MaxBalance   == 2   \* balances reported by the exchange: 0, 100, .. 100 * MaxBalance
MaxPrice     == 5   \* market / stop prices 1 .. MaxPrice in the sizing model
MaxPrecision == 2   \* quantity_precision / price_precision 0 .. MaxPrecision
MaxLeverage  == 2   \* leverage 1 .. MaxLeverage
MaxNotional  == 2   \* min_notional 0, 5, .. 5 * MaxNotional
MaxTicks     == 30  \* prices of the stop model: 1 .. MaxTicks ticks of 10^-price_precision
MaxMoves     == 3   \* trailing-stop adjustments for one position
MaxSwing     == 3   \* current prices of the trailing model: entry price - MaxSwing .. + MaxSwing
MaxBars      == 4   \* bars of one strategy run

-----------------------------------------------------------------------------
(* Optional values and exact rationals *)

None == << >>
Some(v) == <<v>>
IsNone(o) == o = << >>
Val(o) == o[1]

Rat(n, d) == [n |-> n, d |-> d]
Zero == Rat(0, 1)
One == Rat(1, 1)
RLess(a, b) == a.n * b.d < b.n * a.d
RLeq(a, b) == a.n * b.d <= b.n * a.d
REq(a, b) == a.n * b.d = b.n * a.d
RMul(a, b) == Rat(a.n * b.n, a.d * b.d)
RSub(a, b) == Rat(a.n * b.d - b.n * a.d, a.d * b.d)
RAdd(a, b) == Rat(a.n * b.d + b.n * a.d, a.d * b.d)
RAbs(a) == IF a.n < 0 THEN Rat(-a.n, a.d) ELSE a
\* a / b for b # 0
RDiv(a, b) == IF b.n > 0 THEN Rat(a.n * b.d, a.d * b.n) ELSE Rat(-(a.n * b.d), a.d * (-b.n))

RECURSIVE Gcd(_, _)
Gcd(a, b) == IF b = 0 THEN a ELSE Gcd(b, a % b)
\* the canonical representative, so that equal numbers are equal states
Norm(a) ==
    LET g == Gcd(IF a.n < 0 THEN -a.n ELSE a.n, a.d)
    IN  IF a.n = 0 THEN Zero ELSE Rat(a.n \div g, a.d \div g)

RECURSIVE Pow10(_)
Pow10(k) == IF k <= 0 THEN 1 ELSE 10 * Pow10(k - 1)
\* x * 10**p, p of either sign (cancelling tens as it goes)
RECURSIVE Scale10(_, _)
Scale10(x, p) ==
    IF p = 0 THEN x
    ELSE IF p > 0
      THEN Scale10(IF x.d % 10 = 0 THEN Rat(x.n, x.d \div 10) ELSE Rat(x.n * 10, x.d), p - 1)
      ELSE Scale10(IF x.n % 10 = 0 /\ x.n # 0 THEN Rat(x.n \div 10, x.d) ELSE Rat(x.n, x.d * 10),
                   p + 1)

\* math.floor, math.ceil
Floor(x) == x.n \div x.d
Ceil(x) == -((-x.n) \div x.d)
\* round(x): to the nearest integer, ties to the even one
RoundHalfEven(x) ==
    LET f == Floor(x)
        twice == 2 * (x.n - f * x.d)
    IN  IF twice < x.d THEN f
        ELSE IF twice > x.d THEN f + 1
        ELSE IF f % 2 = 0 THEN f ELSE f + 1
\* round(x, ndigits)
Round(x, ndigits) == Norm(Scale10(Rat(RoundHalfEven(Scale10(x, ndigits)), 1), -ndigits))

-----------------------------------------------------------------------------
(* Configuration: the options risk_manager.py imports from modules.config.  *)
(* They are fixed for the lifetime of the process; a run starts with any    *)
(* of the settings below.                                                   *)

Percent(k) == Rat(k, 100)

Config(auto, risk, use_sl, sl_pct, trailing, trail_pct) ==
    [AUTO_COMPOUND |-> auto, RISK_PER_TRADE |-> risk,
     USE_STOP_LOSS |-> use_sl, STOP_LOSS_PCT |-> sl_pct,
     TRAILING_STOP |-> trailing, TRAILING_STOP_PCT |-> trail_pct]

RiskConfigs ==
    {Config(auto, risk, use_sl, Percent(2), TRUE, Percent(1)) :
        auto \in BOOLEAN, risk \in {Percent(1), Percent(10)}, use_sl \in BOOLEAN}

\* one sizing call does not read the balance trackers it has just set
SizeConfigs == {c \in RiskConfigs : c.AUTO_COMPOUND}

StopConfigs ==
    {Config(TRUE, Percent(1), use_sl, sl_pct, trailing, trail_pct) :
        use_sl \in BOOLEAN, sl_pct \in {Percent(2), Percent(5)},
        trailing \in BOOLEAN, trail_pct \in {Percent(1), Percent(10)}}

-----------------------------------------------------------------------------
(* RiskManager: balance tracking *)

\* __init__: both trackers start unset
NewTrackers == [initial |-> None, last |-> None]

\* (variant) only initial_balance is set on the first call
establish_initial_only(t, balance) ==
    IF IsNone(t.initial) THEN [initial |-> Some(balance), last |-> t.last] ELSE t

\* calculate_position_size, "Initialize initial balance if not set"
establish_balance(t, balance) ==
    IF IsNone(t.initial)
      THEN [initial |-> Some(balance), last |-> Some(balance)]
      ELSE t

\* calculate_position_size, "Auto compound logic"
auto_compound(cfg, t, balance) ==
    IF cfg.AUTO_COMPOUND /\ ~IsNone(t.last) /\ balance - Val(t.last) > 0
      THEN [t EXCEPT !.last = Some(balance)]
      ELSE t

\* (variant) an unchanged balance counts as profit
made_profit_or_none(current_balance, last) == current_balance - last >= 0

\* update_balance_for_compounding: profit = current_balance - last_known_balance;
\* "if profit > 0"
made_profit(current_balance, last) == current_balance - last > 0

\* update_balance_for_compounding: the trackers after the call and the value returned
update_outcome(cfg, t, current_balance) ==
    IF ~cfg.AUTO_COMPOUND
      THEN [trackers |-> t, ret |-> FALSE]
    ELSE IF IsNone(t.last)
      THEN [trackers |-> [initial |-> Some(current_balance), last |-> Some(current_balance)],
            ret |-> FALSE]
    ELSE IF made_profit(current_balance, Val(t.last))
      THEN [trackers |-> [t EXCEPT !.last = Some(current_balance)], ret |-> TRUE]
    ELSE [trackers |-> t, ret |-> FALSE]

-----------------------------------------------------------------------------
(* RiskManager: position sizing *)

\* get_step_size: the step size is min_qty read as a number
get_step_size(min_qty) == IF RLess(Zero, min_qty) THEN Norm(min_qty) ELSE min_qty

\* int(round(-math.log10(step_size))): the integer p nearest to -log10(step_size),
\* that is 10^(-2p-1) < step_size^2 < 10^(-2p+1) (no tie: sqrt(10) is irrational),
\* which is the least p with 1 < step_size^2 * 10^(2p+1)
exceeds_one(sq, k) ==
    IF k >= 0 THEN RLess(One, Scale10(sq, k))
    ELSE sq.d < sq.n /\ Pow10(-k) * sq.d < sq.n
RECURSIVE precision_from(_, _)
precision_from(sq, p) == IF exceeds_one(sq, 2 * p + 1) THEN p ELSE precision_from(sq, p + 1)
step_precision(step_size) == precision_from(Norm(RMul(step_size, step_size)), -3)

\* round_step_size
round_step_size(quantity, step_size) ==
    LET precision == step_precision(step_size)
    IN  Round(Scale10(Rat(Floor(Scale10(quantity, precision)), 1), -precision), precision)

\* get_current_leverage: the reported leverage, 1 without position info
get_current_leverage(position_info) ==
    IF ~IsNone(position_info) THEN Val(position_info).leverage ELSE 1

\* calculate_position_size: "if stop_loss_price and USE_STOP_LOSS"
sizes_by_stop(cfg, stop_loss_price) ==
    ~IsNone(stop_loss_price) /\ Val(stop_loss_price) # 0 /\ cfg.USE_STOP_LOSS

\* calculate_position_size: max_quantity of either sizing rule
max_quantity(cfg, balance, price, stop_loss_price, leverage) ==
    IF sizes_by_stop(cfg, stop_loss_price)
      THEN RDiv(RMul(Rat(balance, 1), cfg.RISK_PER_TRADE),
                RAbs(Rat(price - Val(stop_loss_price), 1)))
      ELSE RDiv(RMul(RMul(Rat(balance, 1), cfg.RISK_PER_TRADE), Rat(leverage, 1)),
                Rat(price, 1))

\* (variant) the raised quantity is rounded down instead of up
raise_rounding_down(min_notional, price, quantity_precision) ==
    Norm(Scale10(Rat(Floor(Scale10(Rat(min_notional, price), quantity_precision)), 1),
                 -quantity_precision))

\* math.ceil(min_notional / price * 10**quantity_precision) / 10**quantity_precision
raise_to_min_notional(min_notional, price, quantity_precision) ==
    Norm(Scale10(Rat(Ceil(Scale10(Rat(min_notional, price), quantity_precision)), 1),
                 -quantity_precision))

\* calculate_position_size: the test that allows raising, min_notional / price <= max_quantity
can_raise(min_notional, price, max_q) == RLeq(Rat(min_notional, price), max_q)

\* calculate_position_size after the balance bookkeeping: the quantity returned,
\* the max_quantity it was derived from, and the return statement reached
position_size(cfg, a) ==
    IF a.balance <= 0
      THEN [quantity |-> Zero, max_quantity |-> None, path |-> "insufficient_balance"]
    ELSE IF IsNone(a.symbol_info)
      THEN [quantity |-> Zero, max_quantity |-> None, path |-> "no_symbol_info"]
    ELSE IF sizes_by_stop(cfg, a.stop_loss_price) /\ a.price = Val(a.stop_loss_price)
      THEN [quantity |-> Zero, max_quantity |-> None, path |-> "stop_too_close"]
    ELSE
      LET info == Val(a.symbol_info)
          max_q == max_quantity(cfg, a.balance, a.price, a.stop_loss_price,
                                get_current_leverage(a.position_info))
          quantity == round_step_size(max_q, get_step_size(info.min_qty))
      IN  IF RLess(RMul(quantity, Rat(a.price, 1)), Rat(info.min_notional, 1))
            THEN IF can_raise(info.min_notional, a.price, max_q)
                   THEN [quantity |-> raise_to_min_notional(info.min_notional, a.price,
                                                            info.quantity_precision),
                         max_quantity |-> Some(Norm(max_q)), path |-> "raised"]
                   ELSE [quantity |-> Zero, max_quantity |-> Some(Norm(max_q)),
                         path |-> "below_min_notional"]
            ELSE [quantity |-> quantity, max_quantity |-> Some(Norm(max_q)),
                  path |-> "floored"]

-----------------------------------------------------------------------------
(* RiskManager: the two operations as actions *)

Trackers == [initial |-> initial_balance, last |-> last_known_balance]

\* calculate_position_size(symbol, side, price, stop_loss_price); a.balance is what
\* get_account_balance returns, a.symbol_info and a.position_info what the client reports
calculate_position_size(a) ==
    LET t == auto_compound(config, establish_balance(Trackers, a.balance), a.balance)
        r == position_size(config, a)
    IN  /\ initial_balance' = t.initial
        /\ last_known_balance' = t.last
        /\ call' = [op |-> "calculate_position_size", args |-> a, ret |-> r.quantity,
                    max_quantity |-> r.max_quantity, path |-> r.path, before |-> Trackers]
        /\ log' = Append(log, "calculate_position_size")
        /\ UNCHANGED <<config, stop_vars, strategy_vars>>

\* update_balance_for_compounding(); current_balance is what get_account_balance returns
update_balance_for_compounding(current_balance) ==
    LET o == update_outcome(config, Trackers, current_balance)
    IN  /\ initial_balance' = o.trackers.initial
        /\ last_known_balance' = o.trackers.last
        /\ call' = [op |-> "update_balance_for_compounding",
                    args |-> [balance |-> current_balance], ret |-> o.ret,
                    max_quantity |-> None, path |-> "", before |-> Trackers]
        /\ log' = Append(log, "update_balance_for_compounding")
        /\ UNCHANGED <<config, stop_vars, strategy_vars>>

(* Inputs *)

Balances == {100 * i : i \in 0 .. MaxBalance}
Prices == 1 .. MaxPrice
Precisions == 0 .. MaxPrecision
MinQtys == {Rat(1, Pow10(k)) : k \in Precisions} \cup {Rat(1, 4), Rat(5, 1)}
MinNotionals == {5 * i : i \in 0 .. MaxNotional}
SymbolInfos ==
    [quantity_precision : Precisions, min_qty : MinQtys, min_notional : MinNotionals]
PositionInfos == [leverage : 1 .. MaxLeverage]
Optional(S) == {None} \cup {Some(x) : x \in S}

SizingArgs ==
    [balance : Balances, price : Prices, stop_loss_price : Optional(Prices),
     symbol_info : Optional(SymbolInfos), position_info : Optional(PositionInfos)]

\* the calls of a run of several operations: one instrument, any balance
RunArgs ==
    [balance : Balances, price : {MaxPrice}, stop_loss_price : Optional({MaxPrice - 1}),
     symbol_info : Optional({[quantity_precision |-> 0, min_qty |-> One, min_notional |-> 5]}),
     position_info : {None}]

StopIdle == position = None /\ stop = None
StrategyIdle == bars = << >> /\ signals = << >>
NoCall == [op |-> "none"]

(* A run of one RiskManager: any sequence of the two operations *)

Init ==
    /\ config \in RiskConfigs
    /\ initial_balance = NewTrackers.initial
    /\ last_known_balance = NewTrackers.last
    /\ call = NoCall
    /\ log = << >>
    /\ StopIdle /\ StrategyIdle

Sizing == \E a \in RunArgs : Len(log) < MaxCalls /\ calculate_position_size(a)
Compounding == \E b \in Balances : Len(log) < MaxCalls /\ update_balance_for_compounding(b)

Next == Sizing \/ Compounding
Spec == Init /\ [][Next]_vars

(* One call of calculate_position_size on a new RiskManager, for every input *)

SizeInit ==
    /\ config \in SizeConfigs
    /\ initial_balance = NewTrackers.initial
    /\ last_known_balance = NewTrackers.last
    /\ call \in [op : {"pending"}, args : SizingArgs]
    /\ log = << >>
    /\ StopIdle /\ StrategyIdle

SizeCall == call.op = "pending" /\ calculate_position_size(call.args)
SizeNext == SizeCall
SizeSpec == SizeInit /\ [][SizeNext]_vars

-----------------------------------------------------------------------------
(* RiskManager: stop-loss and trailing stop *)

\* round(price, symbol_info['price_precision']) when the client reports symbol info
apply_price_precision(price, symbol_info) ==
    IF ~IsNone(symbol_info) THEN Round(price, Val(symbol_info).price_precision) ELSE Norm(price)

\* calculate_stop_loss
calculate_stop_loss(cfg, side, entry_price, symbol_info) ==
    IF ~cfg.USE_STOP_LOSS THEN None
    ELSE LET stop_price == IF side = "BUY"
                             THEN RMul(entry_price, RSub(One, cfg.STOP_LOSS_PCT))
                             ELSE RMul(entry_price, RAdd(One, cfg.STOP_LOSS_PCT))
         IN  Some(apply_price_precision(stop_price, symbol_info))

\* (variant) the operands of 1 - TRAILING_STOP_PCT are swapped
trailing_candidate_swapped(cfg, side, current_price) ==
    IF side = "BUY"
      THEN RMul(current_price, RSub(cfg.TRAILING_STOP_PCT, One))
      ELSE RMul(current_price, RAdd(One, cfg.TRAILING_STOP_PCT))

\* adjust_stop_loss_for_trailing: new_stop before rounding
trailing_candidate(cfg, side, current_price) ==
    IF side = "BUY"
      THEN RMul(current_price, RSub(One, cfg.TRAILING_STOP_PCT))
      ELSE RMul(current_price, RAdd(One, cfg.TRAILING_STOP_PCT))

\* "if current_stop and ...": None and 0 are both false
Truthy(o) == ~IsNone(o) /\ ~REq(Val(o), Zero)

\* adjust_stop_loss_for_trailing; position_info is the one passed in or, without
\* one, the one the client reports
adjust_stop_loss_for_trailing(cfg, side, current_price, position_info, symbol_info) ==
    IF ~cfg.TRAILING_STOP THEN None
    ELSE IF IsNone(position_info) \/ Val(position_info).position_amount = 0 THEN None
    ELSE
      LET entry_price == Val(position_info).entry_price
          new_stop == trailing_candidate(cfg, side, current_price)
          current_stop == calculate_stop_loss(cfg, side, entry_price, symbol_info)
      IN  IF side = "BUY" /\ Truthy(current_stop) /\ RLeq(new_stop, Val(current_stop))
            THEN None
          ELSE IF side # "BUY" /\ Truthy(current_stop) /\ RLeq(Val(current_stop), new_stop)
            THEN None
          ELSE Some(apply_price_precision(new_stop, symbol_info))

(* A position and its stop.  stop.in_effect is the stop the caller holds for the *)
(* position: the one calculate_stop_loss gave at entry, then the last one        *)
(* adjust_stop_loss_for_trailing returned.                                       *)

NewStop ==
    [phase |-> "new", initial |-> None, in_effect |-> None, before |-> None,
     ret |-> None, returned |-> << >>, last_price |-> None, rising |-> TRUE, moves |-> 0]

RiskIdle ==
    /\ initial_balance = None /\ last_known_balance = None
    /\ call = [op |-> "none"] /\ log = << >>

Sides == {"BUY", "SELL"}
PricePrecisions == [price_precision : 0 .. MaxPrecision]
Ticks(k, precision) == Norm(Rat(k, Pow10(precision)))

\* PlaceStop: the caller asks calculate_stop_loss for the stop of the new position
PlaceStop ==
    /\ stop.phase = "new"
    /\ LET p == Val(position)
           s == calculate_stop_loss(config, p.side, p.entry_price, p.symbol_info)
       IN  stop' = [stop EXCEPT !.phase = "placed", !.initial = s, !.in_effect = s]
    /\ UNCHANGED <<config, position, risk_vars, strategy_vars>>

\* Trail: the caller passes a new current_price to adjust_stop_loss_for_trailing and
\* moves the stop when a price comes back
Trail(current_price) ==
    /\ stop.phase = "placed"
    /\ stop.moves < MaxMoves
    /\ LET p == Val(position)
           r == adjust_stop_loss_for_trailing(config, p.side, current_price,
                                              Some(p), p.symbol_info)
       IN  stop' = [stop EXCEPT
                      !.before = stop.in_effect,
                      !.ret = r,
                      !.in_effect = IF IsNone(r) THEN @ ELSE r,
                      !.returned = IF IsNone(r) THEN @ ELSE Append(@, Val(r)),
                      !.rising = @ /\ (IsNone(stop.last_price)
                                         \/ RLeq(Val(stop.last_price), current_price)),
                      !.last_price = Some(current_price),
                      !.moves = @ + 1]
    /\ UNCHANGED <<config, position, risk_vars, strategy_vars>>

(* calculate_stop_loss for every entry price of 1 .. MaxTicks ticks *)

StopLossPositions ==
    {[side |-> sd, entry_price |-> Ticks(k, si.price_precision), position_amount |-> 1,
      symbol_info |-> Some(si)] :
        sd \in Sides, k \in 1 .. MaxTicks, si \in PricePrecisions}
    \cup
    {[side |-> sd, entry_price |-> Ticks(k, MaxPrecision), position_amount |-> 1,
      symbol_info |-> None] : sd \in Sides, k \in 1 .. MaxTicks}

StopLossInit ==
    /\ config \in StopConfigs
    /\ position \in {Some(p) : p \in StopLossPositions}
    /\ stop = NewStop
    /\ RiskIdle /\ StrategyIdle

StopLossNext == PlaceStop
StopLossSpec == StopLossInit /\ [][StopLossNext]_vars

(* A trailing stop over a sequence of prices around the entry price *)

TrailEntryPrices == {Rat(100, 1)}
TrailPrices == {Rat(100 + d, 1) : d \in -MaxSwing .. MaxSwing}
TrailPositions ==
    [side : Sides, entry_price : TrailEntryPrices, position_amount : {0, 1},
     symbol_info : Optional(PricePrecisions)]

TrailInit ==
    /\ config \in StopConfigs
    /\ position \in {Some(p) : p \in TrailPositions}
    /\ stop = NewStop
    /\ RiskIdle /\ StrategyIdle

Trailing == \E current_price \in TrailPrices : Trail(current_price)
TrailNext == PlaceStop \/ Trailing
TrailSpec == TrailInit /\ [][TrailNext]_vars

-----------------------------------------------------------------------------
(* Strategies.  The indicator columns (ta.momentum.RSIIndicator,              *)
(* ta.trend.EMAIndicator) are inputs: one RSI value and one fast/slow EMA     *)
(* pair per bar.  get_signal reads the last two rows.  A None signal is       *)
(* "NONE".                                                                    *)

RSI_OVERSOLD == 30
RSI_OVERBOUGHT == 70

\* (variant) BUY on the upward cross of the oversold level
rsi_signal_on_recovery(last_rsi, prev_rsi) ==
    IF last_rsi >= RSI_OVERSOLD /\ prev_rsi < RSI_OVERSOLD THEN "BUY"
    ELSE IF last_rsi > RSI_OVERBOUGHT /\ prev_rsi <= RSI_OVERBOUGHT THEN "SELL"
    ELSE "NONE"

\* RSIStrategy.get_signal, "Generate signals"
rsi_signal(last_rsi, prev_rsi) ==
    IF last_rsi < RSI_OVERSOLD /\ prev_rsi >= RSI_OVERSOLD THEN "BUY"
    ELSE IF last_rsi > RSI_OVERBOUGHT /\ prev_rsi <= RSI_OVERBOUGHT THEN "SELL"
    ELSE "NONE"

\* EMAStrategy.get_signal, "Generate signals"
ema_signal(current_fast, current_slow, prev_fast, prev_slow) ==
    IF current_fast > current_slow /\ prev_fast <= prev_slow THEN "BUY"
    ELSE IF current_fast < current_slow /\ prev_fast >= prev_slow THEN "SELL"
    ELSE "NONE"

\* (variant) the EMA signal is not consulted
rsi_ema_signal_rsi_only(rsi_sig, ema_sig) ==
    IF rsi_sig = "BUY" THEN "BUY"
    ELSE IF rsi_sig = "SELL" THEN "SELL"
    ELSE "NONE"

\* RSIEMAStrategy.get_signal, the combination of the two sub-signals
rsi_ema_signal(rsi_sig, ema_sig) ==
    IF rsi_sig = "BUY" /\ (ema_sig = "BUY" \/ ema_sig = "NONE") THEN "BUY"
    ELSE IF rsi_sig = "SELL" /\ (ema_sig = "SELL" \/ ema_sig = "NONE") THEN "SELL"
    ELSE "NONE"

RsiValues == {25, 30, 32, 75}
EmaValues == [fast : 1 .. 3, slow : {2}]

\* bars.rsi: the RSI of every bar so far; bars.ema: the EMAs of the last two bars.
\* signals.rsi: RSIStrategy's signal at every bar from the second on;
\* signals.ema, signals.rsi_ema: the EMA and the composite signal at the last bar.
StrategyInit ==
    /\ bars \in [rsi : {<<r>> : r \in RsiValues}, ema : {<<e>> : e \in EmaValues}]
    /\ signals = [rsi |-> << >>, ema |-> "NONE", rsi_ema |-> "NONE"]
    /\ config \in {Config(TRUE, Percent(1), TRUE, Percent(2), TRUE, Percent(1))}
    /\ RiskIdle /\ StopIdle

\* get_signal(klines) of the three strategies on the klines extended by one bar
get_signal(rsi, ema) ==
    /\ Len(bars.rsi) < MaxBars
    /\ LET prev_rsi == bars.rsi[Len(bars.rsi)]
           prev_ema == bars.ema[Len(bars.ema)]
           rsi_sig == rsi_signal(rsi, prev_rsi)
           ema_sig == ema_signal(ema.fast, ema.slow, prev_ema.fast, prev_ema.slow)
       IN  /\ bars' = [rsi |-> Append(bars.rsi, rsi), ema |-> <<prev_ema, ema>>]
           /\ signals' = [rsi |-> Append(signals.rsi, rsi_sig),
                          ema |-> ema_sig,
                          rsi_ema |-> rsi_ema_signal(rsi_sig, ema_sig)]
    /\ UNCHANGED <<config, risk_vars, stop_vars>>

NextBar == \E rsi \in RsiValues, ema \in EmaValues : get_signal(rsi, ema)
StrategyNext == NextBar
StrategySpec == StrategyInit /\ [][StrategyNext]_vars

-----------------------------------------------------------------------------
(* Claims about the RiskManager *)

IsSizing == call.op = "calculate_position_size"
IsUpdate == call.op = "update_balance_for_compounding"
\* the call just completed is the first update_balance_for_compounding of the run
FirstUpdate ==
    IsUpdate /\ \A i \in 1 .. Len(log) - 1 : log[i] # "update_balance_for_compounding"
\* q is an integer multiple of step
IsMultiple(q, step) == (q.n * step.d) % (q.d * step.n) = 0
Notional(q, price) == RMul(q, Rat(price, 1))

\* C1 (as stated): with auto-compounding on, the very first call of
\* update_balance_for_compounding returns false whatever the balance, and a later
\* call returns true only if the balance is strictly greater than the last snapshot.
C1_FirstUpdateFalse ==
    (config.AUTO_COMPOUND /\ IsUpdate) =>
        /\ FirstUpdate => call.ret = FALSE
        /\ (~FirstUpdate /\ call.ret = TRUE) =>
              call.args.balance > Val(call.before.last)

\* C1 (amended): with auto-compounding on, update_balance_for_compounding returns
\* false whenever no snapshot exists yet (no operation ran before it), and any call,
\* the first included, returns true only if a snapshot exists and the balance is
\* strictly greater than it.
C1_TrueOnlyOnIncrease ==
    (config.AUTO_COMPOUND /\ IsUpdate) =>
        /\ Len(log) = 1 => (IsNone(call.before.last) /\ call.ret = FALSE)
        /\ call.ret = TRUE =>
              (~IsNone(call.before.last) /\ call.args.balance > Val(call.before.last))

\* a run whose first operation was an update (which returned false) and whose
\* later update returned true
C1_Witness ==
    /\ config.AUTO_COMPOUND /\ IsUpdate /\ call.ret = TRUE
    /\ log[1] = "update_balance_for_compounding"

\* C10: initial_balance is unset if and only if last_known_balance is unset, in every
\* state reachable by the two operations.
C10_BothOrNeither == IsNone(initial_balance) <=> IsNone(last_known_balance)

\* a sizing call that returned the zero sentinel after an update had set the trackers
C10_Witness ==
    /\ IsSizing /\ call.path = "no_symbol_info" /\ call.ret = Zero
    /\ Len(log) >= 2
    /\ ~IsNone(initial_balance) /\ ~IsNone(last_known_balance)
    /\ initial_balance # last_known_balance

\* C2: the quantity calculate_position_size returns never exceeds max_quantity.
C2_NeverExceedsMax ==
    (IsSizing /\ ~IsNone(call.max_quantity)) => RLeq(call.ret, Val(call.max_quantity))

\* C3: a nonzero quantity returned by calculate_position_size has
\* quantity * price >= min_notional, on the floored and on the raised path.
C3_MeetsMinNotional ==
    (IsSizing /\ call.ret # Zero) =>
        RLeq(Rat(Val(call.args.symbol_info).min_notional, 1),
             Notional(call.ret, call.args.price))

\* the quantity was raised to meet the minimum notional
C3_Witness ==
    /\ IsSizing /\ call.path = "raised" /\ call.ret # Zero
    /\ Val(call.args.symbol_info).min_notional > 0

\* C4: the quantity calculate_position_size returns is a multiple of the step size
\* derived from min_qty, also when it was raised using quantity_precision.
C4_MultipleOfStep ==
    (IsSizing /\ ~IsNone(call.args.symbol_info)) =>
        IsMultiple(call.ret, get_step_size(Val(call.args.symbol_info).min_qty))

-----------------------------------------------------------------------------
(* Claims about the stop-loss and the trailing stop *)

Placed == stop.phase = "placed"
Long == Val(position).side = "BUY"
EntryPrice == Val(position).entry_price

\* C5: with the stop-loss enabled and stop_loss_pct > 0, the price calculate_stop_loss
\* returns (after rounding to the price precision) is strictly below entry_price for
\* a long position and strictly above it for a short one.
C5_StopBeyondEntry ==
    (Placed /\ config.USE_STOP_LOSS /\ RLess(Zero, config.STOP_LOSS_PCT)) =>
        IF Long THEN RLess(Val(stop.initial), EntryPrice)
                ELSE RLess(EntryPrice, Val(stop.initial))

\* C6: for a long position, over calls of adjust_stop_loss_for_trailing with
\* non-decreasing current_price, every stop returned is >= every stop returned before.
C6_LongStopNeverDecreases ==
    (Placed /\ Long /\ stop.rising) =>
        \A i, j \in 1 .. Len(stop.returned) :
            i < j => RLeq(stop.returned[i], stop.returned[j])

\* rising prices moved the stop of a long position at least twice, to a higher stop
C6_Witness ==
    /\ Placed /\ Long /\ stop.rising
    /\ Len(stop.returned) >= 2
    /\ RLess(stop.returned[1], stop.returned[Len(stop.returned)])

\* C7: a stop comes back from adjust_stop_loss_for_trailing only if it is strictly
\* above (long) or strictly below (short) the stop in effect before the call.
C7_StopNeverReverses ==
    (Placed /\ stop.moves > 0 /\ ~IsNone(stop.ret) /\ ~IsNone(stop.before)) =>
        IF Long THEN RLess(Val(stop.before), Val(stop.ret))
                ELSE RLess(Val(stop.ret), Val(stop.before))

-----------------------------------------------------------------------------
(* Claims about the strategies *)

Evaluated == Len(signals.rsi) > 0
LastRsiSignal == signals.rsi[Len(signals.rsi)]
Buys == {i \in 1 .. Len(signals.rsi) : signals.rsi[i] = "BUY"}
\* the RSI series of the run starts at from, ends at to and never moves the other way
Moves(from, to) ==
    /\ Len(bars.rsi) >= 2
    /\ bars.rsi[1] = from /\ bars.rsi[Len(bars.rsi)] = to
    /\ \A i \in 1 .. Len(bars.rsi) - 1 :
          IF from <= to THEN bars.rsi[i] <= bars.rsi[i + 1]
                        ELSE bars.rsi[i] >= bars.rsi[i + 1]
\* signals.rsi[i] is the signal at bar i + 1; the bar where the series crosses 30
CrossesAt(i) ==
    (bars.rsi[i] < RSI_OVERSOLD) # (bars.rsi[i + 1] < RSI_OVERSOLD)

\* C8 (as stated): oversold = 30; over a bar sequence whose RSI moves from 25 to 32
\* across 30, RSIStrategy emits BUY exactly once, on the transition bar, and NONE on
\* the bars before and after.
C8_BuyOnceOnRise ==
    Moves(25, 32) =>
        \A i \in 1 .. Len(signals.rsi) :
            signals.rsi[i] = (IF CrossesAt(i) THEN "BUY" ELSE "NONE")

\* C8 (amended): oversold = 30; over a bar sequence whose RSI moves from 32 down to 25
\* across 30, RSIStrategy emits BUY exactly once, on the transition bar, and NONE on
\* the bars before and after; over a sequence that moves from 25 up to 32 it emits
\* NONE on every bar.
C8_BuyOnceOnFall ==
    /\ Moves(32, 25) =>
          /\ Cardinality(Buys) = 1
          /\ \A i \in 1 .. Len(signals.rsi) :
                signals.rsi[i] = (IF CrossesAt(i) THEN "BUY" ELSE "NONE")
    /\ Moves(25, 32) => \A i \in 1 .. Len(signals.rsi) : signals.rsi[i] = "NONE"

\* a falling series with a bar before and a bar after the transition bar
C8_Witness ==
    /\ Moves(32, 25) /\ Len(signals.rsi) >= 3
    /\ signals.rsi[1] = "NONE" /\ signals.rsi[2] = "BUY" /\ signals.rsi[3] = "NONE"

====
